---- MODULE Spec2Model ----
(***************************************************************************)
(* Model of three pieces of c-blosc2:                                      *)
(*   - tests/test_shuffle_roundtrip_generic.c : the generic shuffle        *)
(*     round-trip test,                                                    *)
(*   - blosc/stune.h : split_block, the block splitting decision,          *)
(*   - bench/sum_openmp.c : the super-chunk benchmark that sums a dataset  *)
(*     uncompressed and then chunk by chunk with OpenMP lanes.             *)
(***************************************************************************)
EXTENDS Integers, Sequences, FiniteSets, TLC

VARIABLES
  shuf,     \* the state of test_shuffle_roundtrip_generic
  call,     \* the last call of split_block: inputs, context after, result
  prev,     \* the call of split_block before it
  schunk,   \* the super-chunk
  log,      \* the raw lengths handed to blosc2_append_buffer, and its results
  bench     \* the state of main() of sum_openmp.c

vars == <<shuf, call, prev, schunk, log, bench>>

\* ------------------------------------------------------------------------
\* Bounds of the model
\* ------------------------------------------------------------------------
MaxTypeSize == 3     \* element sizes 1..MaxTypeSize in the shuffle test
MaxElements == 2     \* number of elements 0..MaxElements in the shuffle test
MaxAppends == 3      \* calls of blosc2_append_buffer on one super-chunk
MaxRawLen == 2       \* raw chunk lengths 0..MaxRawLen handed to it
N == 6               \* elements of the benchmark's dataset (100 * 1000 * 1000)
CHUNKSIZE == 2       \* elements of a chunk of the benchmark (4 * 1000)
NITER == 2           \* repetitions of each reduction of the benchmark (5)

\* ------------------------------------------------------------------------
\* Generic shuffle (blosc/shuffle-generic.h)
\* ------------------------------------------------------------------------

\* The byte at offset p of the shuffled buffer.  The tail of a buffer whose
\* size is no multiple of the element size is copied as it is.
ShuffleByte(type_size, blocksize, src, p) ==
  LET neblock_quot == blocksize \div type_size
      vectorizable == neblock_quot * type_size
  IN IF p >= vectorizable
       THEN src[p + 1]
       ELSE LET j == p \div neblock_quot
                i == p % neblock_quot
            IN src[i * type_size + j + 1]

\* shuffle_generic: byte j of element i goes to position j*neblock + i.
shuffle_generic(type_size, blocksize, src) ==
  [p \in 1..blocksize |-> ShuffleByte(type_size, blocksize, src, p - 1)]

\* The byte at offset p of the unshuffled buffer.
UnshuffleByte(type_size, blocksize, src, p) ==
  LET neblock_quot == blocksize \div type_size
      vectorizable == neblock_quot * type_size
  IN IF p >= vectorizable
       THEN src[p + 1]
       ELSE LET i == p \div type_size
                j == p % type_size
            IN src[j * neblock_quot + i + 1]

\* Variant of unshuffle_generic that takes the streams to be type_size bytes
\* apart instead of neblock bytes apart.
unshuffle_generic_stride(type_size, blocksize, src) ==
  [p \in 1..blocksize |->
     LET i == (p - 1) \div type_size
         j == (p - 1) % type_size
         q == j * type_size + i + 1
     IN IF q <= blocksize THEN src[q] ELSE src[p]]

\* unshuffle_generic: byte j of element i comes from position j*neblock + i.
unshuffle_generic(type_size, blocksize, src) ==
  [p \in 1..blocksize |-> UnshuffleByte(type_size, blocksize, src, p - 1)]

\* Two byte values tell any two permutations of a buffer apart.
Bytes == {0, 255}

Buffers(n) == [1..n -> Bytes]

ShufInit ==
  shuf = [pc |-> "start", type_size |-> 0, num_elements |-> 0,
          buffer_size |-> 0, original |-> <<>>, shuffled |-> <<>>,
          unshuffled |-> <<>>, exit_code |-> -1]

\* test_shuffle_roundtrip_generic allocates the three buffers and fills the
\* original one.  main() passes a type_size >= 1 and a num_elements >= 1;
\* num_elements = 0 is the empty buffer, which only a direct call gives.
TestFill ==
  /\ shuf.pc = "start"
  /\ \E ts \in 1..MaxTypeSize, ne \in 0..MaxElements :
       \E data \in Buffers(ts * ne) :
         shuf' = [shuf EXCEPT !.pc = "filled", !.type_size = ts,
                              !.num_elements = ne, !.buffer_size = ts * ne,
                              !.original = data]
  /\ UNCHANGED <<call, prev, schunk, log, bench>>

TestShuffle ==
  /\ shuf.pc = "filled"
  /\ shuf' = [shuf EXCEPT !.pc = "shuffled",
                !.shuffled = shuffle_generic(shuf.type_size, shuf.buffer_size,
                                             shuf.original)]
  /\ UNCHANGED <<call, prev, schunk, log, bench>>

TestUnshuffle ==
  /\ shuf.pc = "shuffled"
  /\ shuf' = [shuf EXCEPT !.pc = "unshuffled",
                !.unshuffled = unshuffle_generic(shuf.type_size,
                                                 shuf.buffer_size,
                                                 shuf.shuffled)]
  /\ UNCHANGED <<call, prev, schunk, log, bench>>

\* memcmp(original, unshuffled, buffer_size) ? EXIT_FAILURE : EXIT_SUCCESS
TestCompare ==
  /\ shuf.pc = "unshuffled"
  /\ shuf' = [shuf EXCEPT !.pc = "done",
                !.exit_code = IF \E p \in 1..shuf.buffer_size :
                                    shuf.original[p] # shuf.unshuffled[p]
                                THEN 1 ELSE 0]
  /\ UNCHANGED <<call, prev, schunk, log, bench>>

\* ------------------------------------------------------------------------
\* split_block (blosc/stune.h)
\* ------------------------------------------------------------------------
MAX_STREAMS == 16
BLOSC_MIN_BUFFERSIZE == 128

BLOSC_ALWAYS_SPLIT == "BLOSC_ALWAYS_SPLIT"
BLOSC_NEVER_SPLIT == "BLOSC_NEVER_SPLIT"
BLOSC_AUTO_SPLIT == "BLOSC_AUTO_SPLIT"
BLOSC_FORWARD_COMPAT_SPLIT == "BLOSC_FORWARD_COMPAT_SPLIT"
\* a splitmode value that is none of the four enumerators
UNKNOWN_SPLIT == "UNKNOWN_SPLIT"

BLOSC_BLOSCLZ == "BLOSC_BLOSCLZ"
BLOSC_LZ4 == "BLOSC_LZ4"
BLOSC_LZ4HC == "BLOSC_LZ4HC"
BLOSC_SNAPPY == "BLOSC_SNAPPY"
BLOSC_ZLIB == "BLOSC_ZLIB"
BLOSC_ZSTD == "BLOSC_ZSTD"

BLOSC_DOSHUFFLE == "BLOSC_DOSHUFFLE"

SplitModes == {BLOSC_ALWAYS_SPLIT, BLOSC_NEVER_SPLIT, BLOSC_AUTO_SPLIT,
               BLOSC_FORWARD_COMPAT_SPLIT, UNKNOWN_SPLIT}
Codecs == {BLOSC_BLOSCLZ, BLOSC_LZ4, BLOSC_LZ4HC, BLOSC_SNAPPY, BLOSC_ZLIB,
           BLOSC_ZSTD}
FilterFlags == {{}, {BLOSC_DOSHUFFLE}}

\* The fields of blosc2_context that split_block reads.
Contexts == [splitmode : SplitModes, compcode : Codecs,
             filter_flags : FilterFlags]

\* The return statement of split_block (lines 61-74).
SplitHeuristic(context, typesize, blocksize, extended_header) ==
  LET compcode == context.compcode
      shuffle == BLOSC_DOSHUFFLE \in context.filter_flags
  IN IF /\ \/ compcode = BLOSC_BLOSCLZ
           \/ compcode = BLOSC_LZ4
           \/ (~extended_header /\ compcode = BLOSC_LZ4HC)
           \/ (~extended_header /\ compcode = BLOSC_ZLIB)
           \/ compcode = BLOSC_SNAPPY
        /\ typesize <= MAX_STREAMS
        /\ (blocksize \div typesize) >= BLOSC_MIN_BUFFERSIZE
       THEN 1 ELSE 0

\* Variants of split_block, each with one slip.
\* (a) BLOSC_NEVER_SPLIT has no case of its own and falls to the heuristic
split_block_no_never(context, typesize, blocksize, extended_header) ==
  IF context.splitmode = BLOSC_ALWAYS_SPLIT
    THEN [ret |-> 1, context |-> context, warned |-> FALSE]
    ELSE [ret |-> SplitHeuristic(context, typesize, blocksize, extended_header),
          context |-> context,
          warned |-> context.splitmode \notin
                       {BLOSC_NEVER_SPLIT, BLOSC_FORWARD_COMPAT_SPLIT,
                        BLOSC_AUTO_SPLIT}]

\* (b) typesize < MAX_STREAMS instead of typesize <= MAX_STREAMS
split_block_strict(context, typesize, blocksize, extended_header) ==
  IF context.splitmode = BLOSC_ALWAYS_SPLIT
    THEN [ret |-> 1, context |-> context, warned |-> FALSE]
  ELSE IF context.splitmode = BLOSC_NEVER_SPLIT
    THEN [ret |-> 0, context |-> context, warned |-> FALSE]
  ELSE [ret |-> IF typesize = MAX_STREAMS THEN 0
                ELSE SplitHeuristic(context, typesize, blocksize,
                                    extended_header),
        context |-> context,
        warned |-> context.splitmode \notin
                     {BLOSC_FORWARD_COMPAT_SPLIT, BLOSC_AUTO_SPLIT}]

\* (c) the shuffle flag, which the code computes, takes part in the decision
split_block_shuffle(context, typesize, blocksize, extended_header) ==
  IF context.splitmode = BLOSC_ALWAYS_SPLIT
    THEN [ret |-> 1, context |-> context, warned |-> FALSE]
  ELSE IF context.splitmode = BLOSC_NEVER_SPLIT
    THEN [ret |-> 0, context |-> context, warned |-> FALSE]
  ELSE [ret |-> IF BLOSC_DOSHUFFLE \in context.filter_flags
                  THEN SplitHeuristic(context, typesize, blocksize,
                                      extended_header)
                  ELSE 0,
        context |-> context,
        warned |-> context.splitmode \notin
                     {BLOSC_FORWARD_COMPAT_SPLIT, BLOSC_AUTO_SPLIT}]

\* (d) the default case returns an error code after the warning
split_block_default_error(context, typesize, blocksize, extended_header) ==
  IF context.splitmode = BLOSC_ALWAYS_SPLIT
    THEN [ret |-> 1, context |-> context, warned |-> FALSE]
  ELSE IF context.splitmode = BLOSC_NEVER_SPLIT
    THEN [ret |-> 0, context |-> context, warned |-> FALSE]
  ELSE IF context.splitmode \in {BLOSC_FORWARD_COMPAT_SPLIT, BLOSC_AUTO_SPLIT}
    THEN [ret |-> SplitHeuristic(context, typesize, blocksize,
                                 extended_header),
          context |-> context, warned |-> FALSE]
  ELSE [ret |-> -1, context |-> context, warned |-> TRUE]

\* split_block: the value returned, the context as the call leaves it, and
\* whether BLOSC_TRACE_WARNING was reached.
split_block(context, typesize, blocksize, extended_header) ==
  IF context.splitmode = BLOSC_ALWAYS_SPLIT
    THEN [ret |-> 1, context |-> context, warned |-> FALSE]
  ELSE IF context.splitmode = BLOSC_NEVER_SPLIT
    THEN [ret |-> 0, context |-> context, warned |-> FALSE]
  ELSE [ret |-> SplitHeuristic(context, typesize, blocksize, extended_header),
        context |-> context,
        warned |-> context.splitmode \notin
                     {BLOSC_FORWARD_COMPAT_SPLIT, BLOSC_AUTO_SPLIT}]

NoCall == [made |-> FALSE]

\* The record of one call of split_block.
CallRecord(context, typesize, blocksize, extended_header) ==
  LET r == split_block(context, typesize, blocksize, extended_header)
  IN [made |-> TRUE, context |-> context, typesize |-> typesize,
      blocksize |-> blocksize, extended_header |-> extended_header,
      ret |-> r.ret, context_after |-> r.context, warned |-> r.warned]

SplitInit == call = NoCall /\ prev = NoCall

\* Element sizes and block sizes of the calls.
TypeSizes == {8, 16, 17, 32}
BlockSizes == {1016, 2048, 4096}

\* A caller invokes split_block on some context.
CallSplitBlock ==
  /\ \E context \in Contexts, typesize \in TypeSizes,
        blocksize \in BlockSizes, extended_header \in BOOLEAN :
       call' = CallRecord(context, typesize, blocksize, extended_header)
  /\ UNCHANGED <<shuf, prev, schunk, log, bench>>

\* The inputs of the calls when two calls are compared: a codec that
\* always splits, the two that split without extended header, one that never
\* splits; every split mode and both filter flags.
PairCodecs == {BLOSC_BLOSCLZ, BLOSC_LZ4HC, BLOSC_ZLIB, BLOSC_ZSTD}
PairContexts == {c \in Contexts : c.compcode \in PairCodecs}
PairTypeSizes == {8, 32}
PairBlockSizes == {4096}

\* A caller invokes split_block again; the call before is remembered.
CallSplitBlockAgain ==
  /\ \E context \in PairContexts, typesize \in PairTypeSizes,
        blocksize \in PairBlockSizes, extended_header \in BOOLEAN :
       call' = CallRecord(context, typesize, blocksize, extended_header)
  /\ prev' = call
  /\ UNCHANGED <<shuf, schunk, log, bench>>

\* ------------------------------------------------------------------------
\* Super-chunk (blosc2_new_schunk, blosc2_append_buffer)
\* ------------------------------------------------------------------------
RECURSIVE SumSeq(_)
SumSeq(q) == IF q = <<>> THEN 0 ELSE Head(q) + SumSeq(Tail(q))

\* What a codec can make of nbytes bytes: at least a header, at most the
\* bytes stored raw behind the header.
CompressedLengths(nbytes) == 1..(nbytes + 1)

NoSchunk == [made |-> FALSE]

blosc2_new_schunk ==
  [made |-> TRUE, nchunks |-> 0, nbytes |-> 0, cbytes |-> 0, data |-> <<>>]

\* Variant of blosc2_append_buffer that adds the raw length to both totals.
blosc2_append_buffer_raw_total(sc, nbytes, src, cbytes) ==
  [sc EXCEPT !.nchunks = @ + 1, !.nbytes = @ + nbytes, !.cbytes = @ + nbytes,
             !.data = Append(@, [nbytes |-> nbytes, cbytes |-> cbytes,
                                 src |-> src])]

\* blosc2_append_buffer: the chunk is compressed to cbytes bytes, stored
\* after the chunks there are, and added to the running totals.
blosc2_append_buffer(sc, nbytes, src, cbytes) ==
  [sc EXCEPT !.nchunks = @ + 1, !.nbytes = @ + nbytes, !.cbytes = @ + cbytes,
             !.data = Append(@, [nbytes |-> nbytes, cbytes |-> cbytes,
                                 src |-> src])]

\* The sequential bytes 0, 1, ... of a raw chunk.
RawChunk(nbytes) == [k \in 1..nbytes |-> k - 1]

SchunkNew ==
  /\ ~schunk.made
  /\ schunk' = blosc2_new_schunk
  /\ UNCHANGED <<shuf, call, prev, log, bench>>

\* An append that succeeds returns the new number of chunks.
SchunkAppend ==
  /\ schunk.made
  /\ Len(log) < MaxAppends
  /\ \E nbytes \in 0..MaxRawLen :
       \E cbytes \in CompressedLengths(nbytes) :
         /\ schunk' = blosc2_append_buffer(schunk, nbytes, RawChunk(nbytes),
                                           cbytes)
         /\ log' = Append(log, [nbytes |-> nbytes, cbytes |-> cbytes,
                                src |-> RawChunk(nbytes),
                                rc |-> schunk'.nchunks])
  /\ UNCHANGED <<shuf, call, prev, bench>>

\* An append that fails returns an error and leaves the super-chunk alone.
SchunkAppendFails ==
  /\ schunk.made
  /\ Len(log) < MaxAppends
  /\ \E nbytes \in 0..MaxRawLen :
       log' = Append(log, [nbytes |-> nbytes, cbytes |-> 0,
                           src |-> RawChunk(nbytes), rc |-> -1])
  /\ UNCHANGED <<shuf, call, prev, schunk, bench>>

\* ------------------------------------------------------------------------
\* The benchmark (bench/sum_openmp.c, synthetic data)
\* ------------------------------------------------------------------------
NCHUNKS == N \div CHUNKSIZE
NTHREADS == 8
EINVAL == 22
SIZEOF_DTYPE == 8

\* size_t isize = CHUNKSIZE * sizeof(DTYPE)
isize == CHUNKSIZE * SIZEOF_DTYPE

\* The values of OMP_NUM_THREADS: NoEnv when it is not set, otherwise its
\* characters.
NoEnv == <<"unset">>
EnvValues == {NoEnv, <<>>, <<"a", "b", "c">>, <<"0">>, <<"-", "1">>,
              <<"1">>, <<"2">>, <<" ", "3">>, <<"2", "2">>, <<"2", "x">>}

Digits == {"0", "1", "2", "3", "4", "5", "6", "7", "8", "9"}
DigitValue(c) ==
  CASE c = "0" -> 0 [] c = "1" -> 1 [] c = "2" -> 2 [] c = "3" -> 3
    [] c = "4" -> 4 [] c = "5" -> 5 [] c = "6" -> 6 [] c = "7" -> 7
    [] c = "8" -> 8 [] c = "9" -> 9

RECURSIVE SkipSpace(_)
SkipSpace(str) ==
  IF str # <<>> /\ Head(str) = " " THEN SkipSpace(Tail(str)) ELSE str

RECURSIVE ReadDigits(_, _)
ReadDigits(str, acc) ==
  IF str # <<>> /\ Head(str) \in Digits
    THEN ReadDigits(Tail(str), 10 * acc + DigitValue(Head(str)))
    ELSE acc

\* strtol(str, NULL, 10): white space, an optional sign, then the digits
\* there are; 0 when there is none.
strtol(str) ==
  LET t == SkipSpace(str)
  IN IF t # <<>> /\ Head(t) = "-" THEN 0 - ReadDigits(Tail(t), 0)
     ELSE IF t # <<>> /\ Head(t) = "+" THEN ReadDigits(Tail(t), 0)
     ELSE ReadDigits(t, 0)

\* Lines 167-175: the number of lanes.
ThreadCount(envvar) ==
  IF envvar = NoEnv THEN NTHREADS
  ELSE LET value == strtol(envvar)
       IN IF value # EINVAL /\ value >= 0 THEN value ELSE NTHREADS

\* What a read of chunk[j][i] with i outside the buffer can give.
Garbage == {0, 1}

BenchInit ==
  bench = [pc |-> "fill_chunk", chunk_buf |-> <<>>, udata |-> [k \in 1..N |-> 0],
           sum |-> 0, compressed_sum |-> 0, n |-> 0, nchunk |-> 0, i |-> 0,
           nbytes |-> 0, cbytes |-> 0, envvar |-> NoEnv, nthreads |-> 0,
           nchunks_thread |-> 0, remaining_chunks |-> 0,
           dctx |-> <<>>, chunk |-> <<>>, lanes |-> <<>>,
           writes |-> {}, decomp |-> <<>>, summed |-> <<>>]

\* Lines 91-96: chunk_buf[j] = j.
FillChunkBuf ==
  /\ bench.pc = "fill_chunk"
  /\ bench' = [bench EXCEPT !.pc = "fill_udata",
                 !.chunk_buf = [k \in 1..CHUNKSIZE |-> k - 1]]
  /\ UNCHANGED <<shuf, call, prev, schunk, log>>

\* Lines 119-124: every chunk of udata is a copy of chunk_buf.
FillUdata ==
  /\ bench.pc = "fill_udata"
  /\ bench' = [bench EXCEPT !.pc = "reduce", !.n = 0, !.sum = 0,
                 !.i = N \div CHUNKSIZE,
                 !.udata = [k \in 1..N |->
                              IF k <= (N \div CHUNKSIZE) * CHUNKSIZE
                                THEN bench.chunk_buf[((k - 1) % CHUNKSIZE) + 1]
                                ELSE 0]]
  /\ UNCHANGED <<shuf, call, prev, schunk, log>>

\* Lines 129-139: one repetition of the reduction of udata (the loop
\* counter is the OpenMP loop variable, private to each thread).
ReduceUncompressed ==
  /\ bench.pc = "reduce"
  /\ bench.n < NITER
  /\ bench' = [bench EXCEPT !.sum = SumSeq(bench.udata), !.n = @ + 1]
  /\ UNCHANGED <<shuf, call, prev, schunk, log>>

\* Line 151.
CreateSchunk ==
  /\ bench.pc = "reduce"
  /\ bench.n >= NITER
  /\ bench' = [bench EXCEPT !.pc = "append", !.nchunk = 0]
  /\ schunk' = blosc2_new_schunk
  /\ UNCHANGED <<shuf, call, prev, log>>

\* Lines 152-157: one chunk of udata is copied to chunk_buf and appended.
\* The chunks are all alike and the codec makes the same of each; the
\* result of blosc2_append_buffer is not looked at and the append is taken
\* to succeed.
AppendChunk ==
  /\ bench.pc = "append"
  /\ bench.nchunk < NCHUNKS
  /\ LET buf == [k \in 1..CHUNKSIZE |->
                   bench.udata[(k - 1) + bench.nchunk * CHUNKSIZE + 1]]
     IN \E cbytes \in {1, isize + 1} :
          /\ bench.nchunk > 0 => cbytes = schunk.data[1].cbytes
          /\ schunk' = blosc2_append_buffer(schunk, isize, buf, cbytes)
          /\ bench' = [bench EXCEPT !.chunk_buf = buf, !.nchunk = @ + 1,
                                    !.i = CHUNKSIZE]
  /\ UNCHANGED <<shuf, call, prev, log>>

\* Lines 160-175: the totals are read, then OMP_NUM_THREADS.
ReadEnv ==
  /\ bench.pc = "append"
  /\ bench.nchunk >= NCHUNKS
  /\ \E envvar \in EnvValues :
       bench' = [bench EXCEPT !.pc = "partition",
                   !.nbytes = schunk.nbytes, !.cbytes = schunk.cbytes,
                   !.envvar = envvar, !.nthreads = ThreadCount(envvar)]
  /\ UNCHANGED <<shuf, call, prev, schunk, log>>

\* Lines 177-183.  With nthreads = 0 the division is undefined: the
\* program stops there, or goes on with a quotient of 0 and no lane.
Partition ==
  /\ bench.pc = "partition"
  /\ IF bench.nthreads = 0
       THEN \/ bench' = [bench EXCEPT !.pc = "crashed"]
            \/ bench' = [bench EXCEPT !.pc = "iter", !.n = 0,
                           !.nchunks_thread = 0,
                           !.remaining_chunks = NCHUNKS]
       ELSE LET q == NCHUNKS \div bench.nthreads
            IN bench' = [bench EXCEPT !.pc = "iter", !.n = 0,
                           !.nchunks_thread = q,
                           !.remaining_chunks = NCHUNKS - q * bench.nthreads,
                           !.dctx = [j \in 0..(bench.nthreads - 1) |-> FALSE],
                           !.chunk = [j \in 0..(bench.nthreads - 1) |-> <<>>]]
  /\ UNCHANGED <<shuf, call, prev, schunk, log>>

Lanes == DOMAIN bench.lanes

\* Line 189-192: compressed_sum = 0 and the lanes start, each with its own
\* nchunk and its own copy of compressed_sum.
StartIteration ==
  /\ bench.pc = "iter"
  /\ bench.n < NITER
  /\ bench' = [bench EXCEPT !.pc = "parallel", !.compressed_sum = 0,
                 !.lanes = [j \in 0..(bench.nthreads - 1) |->
                              [pc |-> "create", nchunk |-> 0, sum |-> 0]],
                 !.writes = {},
                 !.decomp = [c \in 0..(NCHUNKS - 1) |-> <<>>],
                 !.summed = [c \in 0..(NCHUNKS - 1) |-> 0]]
  /\ UNCHANGED <<shuf, call, prev, schunk, log>>

\* The iterations j of the parallel loop of lines 191-201 are the lanes;
\* OpenMP runs iterations given to different threads concurrently, so the
\* steps of the lanes interleave.

\* Where a lane goes when its nchunk is k.
LaneNext(k) == IF k < bench.nchunks_thread THEN "decompress" ELSE "done"

\* Lines 193-194: dctx[j] = blosc2_create_dctx(dparams); nchunk = 0.
LaneCreate(j) ==
  /\ bench.pc = "parallel"
  /\ bench.lanes[j].pc = "create"
  /\ bench' = [bench EXCEPT !.dctx[j] = TRUE,
                 !.lanes[j] = [@ EXCEPT !.pc = LaneNext(0), !.nchunk = 0],
                 !.writes = @ \cup {[loc |-> <<"dctx", j>>, lane |-> j],
                                   [loc |-> <<"nchunk", j>>, lane |-> j]}]
  /\ UNCHANGED <<shuf, call, prev, schunk, log>>

\* Line 195: chunk j*nchunks_thread + nchunk is decompressed to chunk[j].
LaneDecompress(j) ==
  /\ bench.pc = "parallel"
  /\ bench.lanes[j].pc = "decompress"
  /\ LET c == j * bench.nchunks_thread + bench.lanes[j].nchunk
     IN bench' = [bench EXCEPT !.chunk[j] = schunk.data[c + 1].src,
                    !.decomp[c] = Append(@, j),
                    !.lanes[j].pc = "init_i",
                    !.writes = @ \cup {[loc |-> <<"chunk", j>>, lane |-> j]}]
  /\ UNCHANGED <<shuf, call, prev, schunk, log>>

\* Line 196: i = 0.  i is the i of main, one for all lanes.
LaneInitI(j) ==
  /\ bench.pc = "parallel"
  /\ bench.lanes[j].pc = "init_i"
  /\ bench' = [bench EXCEPT !.i = 0, !.lanes[j].pc = "test",
                 !.writes = @ \cup {[loc |-> <<"i", 0>>, lane |-> j]}]
  /\ UNCHANGED <<shuf, call, prev, schunk, log>>

\* Line 196: i < CHUNKSIZE; when it fails, line 194: nchunk++.
LaneTest(j) ==
  /\ bench.pc = "parallel"
  /\ bench.lanes[j].pc = "test"
  /\ IF bench.i < CHUNKSIZE
       THEN bench' = [bench EXCEPT !.lanes[j].pc = "add"]
       ELSE bench' = [bench EXCEPT
                           !.lanes[j] =
                              [@ EXCEPT
                                 !.pc = LaneNext(bench.lanes[j].nchunk + 1),
                                 !.nchunk = @ + 1],
                           !.writes = @ \cup {[loc |-> <<"nchunk", j>>, lane |-> j]}]
  /\ UNCHANGED <<shuf, call, prev, schunk, log>>

\* Line 197: compressed_sum += chunk[j][i], on the lane's copy of
\* compressed_sum (the copy of lane j is location j + 1, the variable of
\* main location 0).
LaneAdd(j) ==
  /\ bench.pc = "parallel"
  /\ bench.lanes[j].pc = "add"
  /\ \E v \in IF bench.i < CHUNKSIZE THEN {bench.chunk[j][bench.i + 1]}
                                   ELSE Garbage :
       bench' = [bench EXCEPT !.lanes[j] = [@ EXCEPT !.pc = "inc",
                                                     !.sum = @ + v],
                   !.summed[j * bench.nchunks_thread + bench.lanes[j].nchunk] = @ + 1,
                   !.writes = @ \cup {[loc |-> <<"compressed_sum", j + 1>>, lane |-> j]}]
  /\ UNCHANGED <<shuf, call, prev, schunk, log>>

\* Line 196: i++.
LaneInc(j) ==
  /\ bench.pc = "parallel"
  /\ bench.lanes[j].pc = "inc"
  /\ bench' = [bench EXCEPT !.i = @ + 1, !.lanes[j].pc = "test",
                 !.writes = @ \cup {[loc |-> <<"i", 0>>, lane |-> j]}]
  /\ UNCHANGED <<shuf, call, prev, schunk, log>>

LaneStep ==
  \E j \in Lanes :
    \/ LaneCreate(j)
    \/ LaneDecompress(j)
    \/ LaneInitI(j)
    \/ LaneTest(j)
    \/ LaneAdd(j)
    \/ LaneInc(j)

\* Line 201: the lanes have joined; their sums are added to compressed_sum.
Join ==
  /\ bench.pc = "parallel"
  /\ \A j \in Lanes : bench.lanes[j].pc = "done"
  /\ bench' = [bench EXCEPT !.pc = "remainder",
                 !.compressed_sum =
                    @ + SumSeq([k \in 1..bench.nthreads |->
                                  bench.lanes[k - 1].sum]),
                 !.lanes = <<>>, !.writes = {},
                 !.nchunk = NCHUNKS - bench.remaining_chunks]
  /\ UNCHANGED <<shuf, call, prev, schunk, log>>

\* Lines 202-208: one of the remaining chunks, with dctx[0] and chunk[0].
\* Without a lane 0 there is no dctx[0] to decompress with.
RemainderChunk ==
  /\ bench.pc = "remainder"
  /\ bench.nchunk < NCHUNKS
  /\ IF bench.nthreads = 0
       THEN bench' = [bench EXCEPT !.pc = "crashed"]
       ELSE LET buf == schunk.data[bench.nchunk + 1].src
            IN bench' = [bench EXCEPT !.chunk[0] = buf,
                           !.decomp[bench.nchunk] = Append(@, 0),
                           !.summed[bench.nchunk] = @ + CHUNKSIZE,
                           !.compressed_sum = @ + SumSeq(buf),
                           !.i = CHUNKSIZE,
                           !.nchunk = @ + 1]
  /\ UNCHANGED <<shuf, call, prev, schunk, log>>

\* Lines 209-211 and the n++ of line 189.
EndIteration ==
  /\ bench.pc = "remainder"
  /\ bench.nchunk >= NCHUNKS
  /\ bench' = [bench EXCEPT !.pc = "iter", !.n = @ + 1]
  /\ UNCHANGED <<shuf, call, prev, schunk, log>>

\* Lines 213-220: assert(sum == compressed_sum).
CheckSums ==
  /\ bench.pc = "iter"
  /\ bench.n >= NITER
  /\ bench' = [bench EXCEPT !.pc = IF bench.sum = bench.compressed_sum
                                     THEN "free" ELSE "aborted"]
  /\ UNCHANGED <<shuf, call, prev, schunk, log>>

\* Lines 221-224.
FreeSchunk ==
  /\ bench.pc = "free"
  /\ bench' = [bench EXCEPT !.pc = "done"]
  /\ schunk' = NoSchunk
  /\ UNCHANGED <<shuf, call, prev, log>>

\* ------------------------------------------------------------------------
\* Specifications
\* ------------------------------------------------------------------------
SchunkInit == schunk = NoSchunk /\ log = <<>>

Init == ShufInit /\ SplitInit /\ SchunkInit /\ BenchInit

\* The shuffle round-trip test.
NextShuffle == TestFill \/ TestShuffle \/ TestUnshuffle \/ TestCompare
SpecShuffle == Init /\ [][NextShuffle]_vars

\* Single calls of split_block.
NextSplit == CallSplitBlock
SpecSplit == Init /\ [][NextSplit]_vars

\* Appends to a new super-chunk.
NextSchunk == SchunkNew \/ SchunkAppend \/ SchunkAppendFails
SpecSchunk == Init /\ [][NextSchunk]_vars

\* The benchmark.
NextBench ==
  \/ FillChunkBuf \/ FillUdata \/ ReduceUncompressed \/ CreateSchunk
  \/ AppendChunk \/ ReadEnv \/ Partition \/ StartIteration \/ LaneStep
  \/ Join \/ RemainderChunk \/ EndIteration \/ CheckSums \/ FreeSchunk
SpecBench == Init /\ [][NextBench]_vars

\* Successive calls of split_block.
NextSplitPair == CallSplitBlockAgain
SpecSplitPair == Init /\ [][NextSplitPair]_vars

\* ------------------------------------------------------------------------
\* Properties of the shuffle round trip
\* ------------------------------------------------------------------------

\* C1: for every element size >= 1 and every buffer whose length is a
\* multiple of the element size (length 0 and element size 1 included),
\* shuffle_generic followed by unshuffle_generic with the same sizes gives
\* back the original bytes, so the test exits with EXIT_SUCCESS.
C1_RoundTrip ==
  /\ shuf.pc \in {"unshuffled", "done"} =>
       /\ Len(shuf.unshuffled) = shuf.buffer_size
       /\ \A p \in 1..shuf.buffer_size : shuf.unshuffled[p] = shuf.original[p]
  /\ shuf.pc = "done" => shuf.exit_code = 0

\* A buffer of two elements of three bytes that the shuffle really
\* rearranges has made the round trip.
C1_Witness ==
  /\ shuf.pc = "done"
  /\ shuf.type_size = 3
  /\ shuf.num_elements = 2
  /\ shuf.shuffled # shuf.original
  /\ shuf.exit_code = 0

\* ------------------------------------------------------------------------
\* Properties of split_block
\* ------------------------------------------------------------------------
AutoModes == {BLOSC_AUTO_SPLIT, BLOSC_FORWARD_COMPAT_SPLIT}
\* codecs that split whatever the header
AlwaysSplitCodecs == {BLOSC_BLOSCLZ, BLOSC_LZ4, BLOSC_SNAPPY}
\* codecs that split only when there is no extended header
CompatSplitCodecs == {BLOSC_LZ4HC, BLOSC_ZLIB}

\* C2: split_block returns 0 in mode Never and 1 in mode Always, whatever
\* the codec, the element size, the block size, the filter flags and
\* extended_header are.
C2_NeverAlways ==
  call.made =>
    /\ call.context.splitmode = BLOSC_NEVER_SPLIT => call.ret = 0
    /\ call.context.splitmode = BLOSC_ALWAYS_SPLIT => call.ret = 1

\* Mode Never says no where the heuristic would say yes, and mode Always
\* would say yes where the heuristic says no: here the first.
C2_Witness ==
  /\ call.made
  /\ call.context.splitmode = BLOSC_NEVER_SPLIT
  /\ call.context.compcode = BLOSC_BLOSCLZ
  /\ call.typesize = 8
  /\ call.blocksize = 4096
  /\ call.ret = 0

\* The three conditions of the Auto/ForwardCompat decision, with the codecs
\* that depend on the header given as a parameter.
SplitConditions(codec, typesize, blocksize, extended_header, compat) ==
  /\ \/ codec \in AlwaysSplitCodecs
     \/ (codec \in compat /\ ~extended_header)
  /\ typesize <= 16
  /\ blocksize >= BLOSC_MIN_BUFFERSIZE * typesize

\* C3 (as amended): in mode Auto or ForwardCompat split_block returns 1
\* exactly when the codec is BLOSCLZ, LZ4 or SNAPPY, or is one of the two
\* codecs LZ4HC and ZLIB and there is no extended header; and the element
\* size is at most MAX_STREAMS (16); and block size / element size is at
\* least the minimum buffer size.  (BLOSCLZ, 8, 4096, Auto) gives 1 and
\* (BLOSCLZ, 32, 4096, Auto) gives 0.
C3_AutoDecision ==
  (call.made /\ call.context.splitmode \in AutoModes) =>
    /\ call.ret \in {0, 1}
    /\ call.ret = 1 <=>
         SplitConditions(call.context.compcode, call.typesize, call.blocksize,
                         call.extended_header, CompatSplitCodecs)
    /\ ( /\ call.context.compcode = BLOSC_BLOSCLZ
         /\ call.blocksize = 4096
         /\ call.context.splitmode = BLOSC_AUTO_SPLIT )
       => /\ call.typesize = 8 => call.ret = 1
          /\ call.typesize = 32 => call.ret = 0

\* An element size of exactly MAX_STREAMS with exactly the minimum number
\* of elements, for a codec that splits only without extended header.
C3_Witness ==
  /\ call.made
  /\ call.context.splitmode = BLOSC_FORWARD_COMPAT_SPLIT
  /\ call.context.compcode = BLOSC_ZLIB
  /\ ~call.extended_header
  /\ call.typesize = 16
  /\ call.blocksize = 2048
  /\ call.ret = 1

\* C3 (as stated): the same, with exactly one legacy codec that splits
\* only when there is no extended header: at the element size, block size
\* and mode of the call, one codec accounts for every decision that
\* depends on the header.
C3_OneLegacyCodec ==
  (call.made /\ call.context.splitmode \in AutoModes) =>
    \E legacy \in Codecs :
      \A codec \in Codecs, extended_header \in BOOLEAN :
        split_block([call.context EXCEPT !.compcode = codec], call.typesize,
                    call.blocksize, extended_header).ret = 1
        <=> SplitConditions(codec, call.typesize, call.blocksize,
                            extended_header, {legacy})

SameFour(a, b) ==
  /\ a.context.compcode = b.context.compcode
  /\ a.typesize = b.typesize
  /\ a.blocksize = b.blocksize
  /\ a.context.splitmode = b.context.splitmode

\* C4 (as amended): the decision is a function of (codec, element size,
\* block size, split mode, extended_header): two calls that agree on these
\* five return the same value whatever the filter flags and the calls
\* before are, and a call leaves every context field as it was.
C4_PureInFive ==
  /\ (prev.made /\ call.made /\ SameFour(prev, call)
        /\ prev.extended_header = call.extended_header)
       => call.ret = prev.ret
  /\ call.made => call.context_after = call.context

\* Two calls that agree on the five values and differ in the filter flags.
C4_Witness ==
  /\ prev.made /\ call.made
  /\ SameFour(prev, call)
  /\ prev.extended_header = call.extended_header
  /\ prev.context.filter_flags # call.context.filter_flags
  /\ call.context.compcode = BLOSC_LZ4HC
  /\ call.context.splitmode = BLOSC_AUTO_SPLIT
  /\ call.typesize = 8
  /\ call.ret = 1

\* C4 (as stated): two calls that agree on (codec, element size, block
\* size, split mode) return the same value, whatever extended_header is.
C4_PureInFour ==
  /\ (prev.made /\ call.made /\ SameFour(prev, call)) => call.ret = prev.ret
  /\ call.made => call.context_after = call.context

\* C10: ForwardCompat gives what Auto gives on every input; a split mode
\* that is none of the four gives that same result after a warning, and is
\* no error: split_block returns 0 or 1 for every split mode.
C10_CompatAsAuto ==
  /\ call.made =>
       /\ call.ret \in {0, 1}
       /\ call.warned <=> call.context.splitmode = UNKNOWN_SPLIT
  /\ ( /\ prev.made /\ call.made
       /\ prev.context.compcode = call.context.compcode
       /\ prev.context.filter_flags = call.context.filter_flags
       /\ prev.typesize = call.typesize
       /\ prev.blocksize = call.blocksize
       /\ prev.extended_header = call.extended_header
       /\ prev.context.splitmode \in AutoModes \cup {UNKNOWN_SPLIT}
       /\ call.context.splitmode \in AutoModes \cup {UNKNOWN_SPLIT} )
     => call.ret = prev.ret

\* A call in mode Auto that splits, then the same call with a split mode
\* that is not recognised.
C10_Witness ==
  /\ prev.made /\ call.made
  /\ prev.context = [call.context EXCEPT !.splitmode = BLOSC_AUTO_SPLIT]
  /\ prev.typesize = call.typesize
  /\ prev.blocksize = call.blocksize
  /\ prev.extended_header = call.extended_header
  /\ call.context.splitmode = UNKNOWN_SPLIT
  /\ call.warned
  /\ prev.ret = 1
  /\ call.ret = 1


\* ------------------------------------------------------------------------
\* Properties of the super-chunk
\* ------------------------------------------------------------------------
\* The appends that succeeded, in order.
Succeeded == SelectSeq(log, LAMBDA e : e.rc >= 0)

\* C5: after any sequence of appends to a new super-chunk, nbytes is the
\* sum of the raw lengths of the chunks appended, cbytes the sum of the
\* compressed lengths of the chunks stored, and the number of chunks the
\* number of appends that succeeded, every chunk staying at the index the
\* append gave it.
C5_SchunkTotals ==
  schunk.made =>
    /\ schunk.nchunks = Len(Succeeded)
    /\ Len(schunk.data) = schunk.nchunks
    /\ schunk.nbytes = SumSeq([k \in 1..Len(Succeeded) |-> Succeeded[k].nbytes])
    /\ schunk.cbytes = SumSeq([k \in 1..Len(schunk.data) |->
                                 schunk.data[k].cbytes])
    /\ \A k \in 1..Len(Succeeded) :
         /\ Succeeded[k].rc = k
         /\ schunk.data[k].src = Succeeded[k].src
         /\ schunk.data[k].nbytes = Succeeded[k].nbytes
         /\ schunk.data[k].cbytes = Succeeded[k].cbytes

\* Three appends of different lengths with one failure among them, and
\* totals that differ.
C5_Witness ==
  /\ schunk.made
  /\ Len(log) = 3
  /\ log[1].rc = 1 /\ log[2].rc = -1 /\ log[3].rc = 2
  /\ log[1].nbytes = 2 /\ log[3].nbytes = 1
  /\ schunk.nbytes = 3
  /\ schunk.cbytes = 2


\* ------------------------------------------------------------------------
\* Properties of the benchmark
\* ------------------------------------------------------------------------
\* All iterations of the compressed sum are over.
SumsDone == bench.pc = "iter" /\ bench.n >= NITER

\* C6: with synthetic data the sum over the decompressed chunks equals the
\* sum over the uncompressed dataset when the program reaches its assert,
\* for every lane count >= 1 and every interleaving of the lanes: the
\* assert never fails.
C6_SumsEqual ==
  /\ (SumsDone /\ bench.nthreads >= 1) => bench.compressed_sum = bench.sum
  /\ bench.nthreads >= 1 => bench.pc # "aborted"

\* C7: during the parallel phase no two lanes write the same location.
C7_DisjointWrites ==
  \A a \in bench.writes, b \in bench.writes :
    a.loc = b.loc => a.lane = b.lane

\* The characters of a decimal number, white space before it allowed.
IsNumber(str) ==
  LET t == SkipSpace(str)
  IN t # <<>> /\ \A k \in 1..Len(t) : t[k] \in Digits

\* C8: the number of lanes is the value of OMP_NUM_THREADS when that is a
\* valid integer >= 1, and NTHREADS (8) when the variable is unset, not a
\* number or otherwise invalid; so it is at least 1.
C8_ThreadCount ==
  bench.pc = "partition" =>
    LET valid == /\ bench.envvar # NoEnv
                 /\ IsNumber(bench.envvar)
                 /\ ReadDigits(SkipSpace(bench.envvar), 0) >= 1
    IN /\ valid =>
            bench.nthreads = ReadDigits(SkipSpace(bench.envvar), 0)
       /\ ~valid => bench.nthreads = NTHREADS
       /\ bench.nthreads >= 1

\* The lane whose context decompresses chunk c.
LaneOf(c) ==
  IF c < bench.nchunks_thread * bench.nthreads
    THEN c \div bench.nchunks_thread
    ELSE 0

\* An iteration of the compressed sum is over.
IterationDone == bench.pc = "iter" /\ bench.n >= 1

\* The part of C9 about the indices: in each iteration every chunk index
\* is decompressed exactly once, by the context of the lane it belongs to.
DecompressedOnce ==
  /\ bench.decomp # <<>> =>
       \A c \in 0..(NCHUNKS - 1) : Len(bench.decomp[c]) <= 1
  /\ (IterationDone /\ bench.nthreads >= 1) =>
       \A c \in 0..(NCHUNKS - 1) : bench.decomp[c] = <<LaneOf(c)>>

\* C9: in each iteration every chunk index in [0, NCHUNKS) is decompressed
\* exactly once, by lane j for the indices j*nchunks_thread ..
\* (j+1)*nchunks_thread-1 and by lane 0's context for the remaining ones,
\* and summed exactly once (each of its CHUNKSIZE elements added once), for
\* every lane count >= 1.
C9_EveryChunkOnce ==
  /\ DecompressedOnce
  /\ (IterationDone /\ bench.nthreads >= 1) =>
       \A c \in 0..(NCHUNKS - 1) : bench.summed[c] = CHUNKSIZE

====
